---- MODULE Spec2Model ----
(***************************************************************************)
(* Model of the media processor of src/server.js (the ytdl-core service    *)
(* with the in-memory info cache, lines 199-361): the infoCache map, its   *)
(* expiry timers, the three POST handlers and the byte relay that          *)
(* `downloadFromInfo(...).pipe(res)` sets up.  The file's first 198 lines  *)
(* (the yt-dlp service) and src/unnamed/part_000 (the service without the  *)
(* cache) are earlier revisions of the same three endpoints and are not    *)
(* modelled.                                                               *)
(*                                                                         *)
(* One request slot is one inbound HTTP request.  A handler runs           *)
(* synchronously up to its next `await`; every action below is one such    *)
(* synchronous stretch, or one event delivered by the event loop (the      *)
(* resolver's promise settling, a timer callback, a stream event).         *)
(***************************************************************************)
EXTENDS Integers, Sequences, FiniteSets, TLC

\* ------------------------------------------------------------------ bounds
NumReqs   == 2      \* request slots (concurrent inbound requests)
MaxTicks  == 2      \* how far the clock advances, in quanta
MaxChunks == 1      \* payload chunks one relay writes before the source ends
MaxAdmitted == 21   \* how many requests of one window are counted

Reqs == 1 .. NumReqs

\* ------------------------------------------------------------------ time
\* setTimeout(..., 1000 * 60 * 30)
TTL == 1000 * 60 * 30
\* the clock advances in steps of one TTL
Quantum == TTL

\* ------------------------------------------------------------------ URLs
NoUrl == "<missing>"
Urls == { NoUrl, "not-a-url",
          "https://youtu.be/aaaaaaaaaaa",
          "https://www.youtube.com/watch?v=aaaaaaaaaaa",
          "https://youtu.be/bbbbbbbbbbb" }

NoId == "<none>"
VideoIds == { "aaaaaaaaaaa", "bbbbbbbbbbb" }

\* ytdl.getURLVideoID(url): the 11-character id of a recognised URL; it throws
\* on anything else, which NoId stands for.
getURLVideoID(url) ==
  CASE url = "https://youtu.be/aaaaaaaaaaa" -> "aaaaaaaaaaa"
    [] url = "https://www.youtube.com/watch?v=aaaaaaaaaaa" -> "aaaaaaaaaaa"
    [] url = "https://youtu.be/bbbbbbbbbbb" -> "bbbbbbbbbbb"
    [] OTHER -> NoId

\* ytdl.validateURL(url): getURLVideoID does not throw.
validateURL(url) == getURLVideoID(url) # NoId

\* the gate without its validateURL test: only a missing url is turned away
InvalidUrlUnvalidated(url) == url = NoUrl
\* the handlers' gate: `!url || !ytdl.validateURL(url)`
InvalidUrl(url) == url = NoUrl \/ ~validateURL(url)

\* ------------------------------------------------------------------ formats
Fmt(c, a, v, p, br) ==
  [container |-> c, hasAudio |-> a, hasVideo |-> v, isProgressive |-> p,
   audioBitrate |-> br]

\* what the resolver may report for a video
FmtMuxed     == << Fmt("mp4", TRUE, TRUE, TRUE, 96), Fmt("webm", TRUE, FALSE, FALSE, 128),
                   Fmt("webm", TRUE, FALSE, FALSE, 160) >>
FmtAudioOnly == << Fmt("webm", TRUE, FALSE, FALSE, 128) >>
FmtVideoOnly == << Fmt("mp4", FALSE, TRUE, FALSE, 0) >>
FormatLists == { FmtMuxed, FmtAudioOnly, FmtVideoOnly }

NoFormat == Fmt("<none>", FALSE, FALSE, FALSE, 0)

\* filter: 'audioonly'
AudioOnly(f) == f.hasAudio /\ ~f.hasVideo
\* filter: f => f.container === 'mp4' && f.hasAudio && f.hasVideo && f.isProgressive
ProgressiveMp4(f) ==
  f.container = "mp4" /\ f.hasAudio /\ f.hasVideo /\ f.isProgressive

Matching(formats, filter) ==
  { i \in 1 .. Len(formats) :
      IF filter = "audioonly" THEN AudioOnly(formats[i]) ELSE ProgressiveMp4(formats[i]) }

\* ytdl.chooseFormat(formats, {quality, filter}): the first-listed match of
\* the highest audio bitrate ('highestaudio') or the first match ('highest',
\* the default).  The library never returns undefined: as its README states,
\* it "throws an Error if it fails to find any matching format"
\* (Error("No such format found: <quality>")), which found = FALSE stands for.
chooseFormat(formats, filter) ==
  LET m == Matching(formats, filter) IN
  IF m = {} THEN [found |-> FALSE, format |-> NoFormat]
  ELSE LET best == IF filter = "audioonly"
                   THEN { i \in m : \A j \in m : formats[j].audioBitrate <= formats[i].audioBitrate }
                   ELSE m
           pick == CHOOSE i \in best : \A j \in best : i <= j
       IN [found |-> TRUE, format |-> formats[pick]]

\* ------------------------------------------------------------------ resolver
\* no retry-after hint in the failure
NoHint == ""
\* the failures ytdl.getInfo may reject with
Errors ==
  { [kind |-> "transient", message |-> "socket hang up", retryAfter |-> NoHint],
    [kind |-> "ratelimited", message |-> "Status code: 429", retryAfter |-> NoHint],
    [kind |-> "ratelimited", message |-> "Status code: 429", retryAfter |-> "120"] }
NoError == [kind |-> "none", message |-> "", retryAfter |-> NoHint]

NoInfo == [id |-> NoId, formats |-> << >>, title |-> << >>, serial |-> 0]

\* ------------------------------------------------------------------ titles
\* A title is a sequence of characters.  The alphabet has a member of every
\* class the sanitizing regular expression tells apart.
MaxTitleLen == 2    \* length of the varied part of a title

Letters    == { "a", "Z" }
Digits     == { "7" }
Whitespace == { " " }
\* "e-acute" stands for the one character U+00E9, a letter outside ASCII
Alphabet   == Letters \cup Digits \cup Whitespace \cup { "_", "-", "!", "e-acute" }

\* .slice(0, 80)
SliceLen == 80

RECURSIVE SeqsUpTo(_)
SeqsUpTo(n) ==
  IF n = 0 THEN { << >> }
  ELSE LET shorter == SeqsUpTo(n - 1) IN
       shorter \cup { Append(t, c) : t \in { x \in shorter : Len(x) = n - 1 }, c \in Alphabet }

Pad(k) == [i \in 1 .. k |-> "a"]
\* the titles the resolver may report: the short ones, and each of them behind
\* SliceLen - 1 letters, so that the cut falls inside the varied part
Titles == { Pad(k) \o t : k \in { 0, SliceLen - 1 }, t \in SeqsUpTo(MaxTitleLen) }
\* the title of the videos of the service model
SampleTitles == { << "a", "_", "!", "7" >> }

\* \w
WordChar(c) == c \in Letters \cup Digits \cup { "_" }
\* a character the class [^\w\s-] does not match
Kept(c) == WordChar(c) \/ c \in Whitespace \/ c = "-"

\* s.slice(0, n)
Slice(s, n) == SubSeq(s, 1, IF Len(s) < n THEN Len(s) ELSE n)

\* the cut of the earlier revisions: .substring(0, 100)
SanitizedTitleHundred(title) == Slice(SelectSeq(title, Kept), 100)
\* info.videoDetails.title.replace(/[^\w\s-]/g, '').slice(0, 80)
SanitizedTitle(title) == Slice(SelectSeq(title, Kept), SliceLen)


\* ------------------------------------------------------------------ state
VARIABLES
  infoCache,    \* const infoCache = new Map(): videoId -> entry (info, and when it was stored)
  timers,       \* the pending setTimeout callbacks of getCachedInfo
  now,          \* the wall clock, in milliseconds
  getInfoCalls, \* how many times ytdl.getInfo has been invoked
  req,          \* per request slot: the handler's position, locals and response
  production,   \* process.env.NODE_ENV === 'production'
  crashed,      \* the process died of an uncaught exception
  admitted      \* requests of the client that reached a handler in the current 60 s

vars == << infoCache, timers, now, getInfoCalls, req, production, crashed, admitted >>

Ops == { "info", "mp3", "mp4" }

IdleReq ==
  [ pc |-> "idle", op |-> "info", url |-> NoUrl,
    info |-> NoInfo, format |-> NoFormat, err |-> NoError,
    \* the response
    status |-> 0, body |-> "none", message |-> "", stack |-> FALSE,
    headers |-> [h \in {} |-> ""], headersSent |-> FALSE, ended |-> FALSE,
    \* the relay
    upstream |-> "none", piped |-> FALSE, client |-> "connected", chunks |-> 0,
    \* history: resolver invocations made for this request, whether the cache
    \* was read, whether it answered, and whether the entry it answered with
    \* was older than the TTL
    calls |-> 0, looked |-> FALSE, hit |-> FALSE, stale |-> FALSE,
    \* which ytdl.getInfo invocation this request is awaiting
    call |-> 0,
    \* the ytdl.getInfo invocations for the same id that were in flight when
    \* this request looked the id up
    joined |-> {},
    \* how many times a response was committed (a JSON body sent, or the
    \* headers sent by the first write of the relay)
    responses |-> 0,
    chunksAtClose |-> 0 ]

Init ==
  /\ infoCache = [k \in {} |-> NoInfo]
  /\ timers = {}
  /\ now = 0
  /\ getInfoCalls = 0
  /\ req = [r \in Reqs |-> IdleReq]
  /\ production \in BOOLEAN
  /\ crashed = FALSE
  /\ admitted = 0

\* ------------------------------------------------------------------ responses
\* res.status(code).json({ error: message [, stack] })
JsonError(rq, code, message, withStack) ==
  [rq EXCEPT !.pc = "done", !.status = code, !.body = "error", !.message = message,
             !.stack = withStack, !.headersSent = TRUE, !.ended = TRUE,
             !.responses = @ + 1]

\* res.json({...}): status 200
JsonOk(rq) ==
  [rq EXCEPT !.pc = "done", !.status = 200, !.body = "json",
             !.headersSent = TRUE, !.ended = TRUE, !.responses = @ + 1]

Fallback(op) ==
  CASE op = "info" -> "Failed to fetch media info"
    [] op = "mp3"  -> "Audio processing failed"
    [] op = "mp4"  -> "Video processing failed"

\* the handlers' catch block: 500 with err.message || fallback, and the stack
\* outside production
Caught(rq, err) ==
  JsonError([rq EXCEPT !.err = err], 500,
            IF err.message = "" THEN Fallback(rq.op) ELSE err.message,
            ~production)

\* ------------------------------------------------------------------ the cache
\* a lookup that never finds the key
hasNever(id) == FALSE
\* infoCache.has(id)
has(id) == id \in DOMAIN infoCache

\* the ytdl.getInfo invocations for id that have not settled yet
InFlight(id) ==
  { req[q].call : q \in { x \in Reqs : req[x].pc = "awaitGetInfo"
                                        /\ getURLVideoID(req[x].url) = id } }

\* infoCache.set(id, info)
CacheSet(id, info) ==
  [k \in DOMAIN infoCache \cup {id} |->
     IF k = id THEN [info |-> info, storedAt |-> now] ELSE infoCache[k]]

\* infoCache.delete(id)
CacheDelete(id) == [k \in DOMAIN infoCache \ {id} |-> infoCache[k]]

\* ------------------------------------------------------------------ handlers
\* A request arrives and its handler runs to its first await: the url gate,
\* then getCachedInfo up to `await ytdl.getInfo(url)`.  Slots are taken in
\* arrival order.  Nothing stands between the socket and the handler: the
\* app uses cors() and express.json() only, so every request is admitted.
Receive(r, op, url) ==
  /\ ~crashed
  /\ req[r].pc = "idle"
  /\ admitted < MaxAdmitted
  /\ admitted' = admitted + 1
  /\ \A q \in Reqs : q < r => req[q].pc # "idle"
  /\ LET rq == [req[r] EXCEPT !.op = op, !.url = url] IN
     IF InvalidUrl(url)
     THEN /\ req' = [req EXCEPT ![r] = JsonError(rq, 400, "Invalid media URL", FALSE)]
          /\ UNCHANGED getInfoCalls
     ELSE LET id == getURLVideoID(url) IN
          IF id = NoId
          THEN \* getURLVideoID throws inside getCachedInfo
               /\ req' = [req EXCEPT ![r] =
                            Caught(rq, [kind |-> "badurl", message |-> "No video id found",
                                        retryAfter |-> NoHint])]
               /\ UNCHANGED getInfoCalls
          ELSE IF has(id)
          THEN /\ req' = [req EXCEPT ![r] =
                            [rq EXCEPT !.pc = "gotInfo", !.info = infoCache[id].info,
                                       !.looked = TRUE, !.hit = TRUE,
                                       !.joined = InFlight(id),
                                       !.stale = now > infoCache[id].storedAt + TTL]]
               /\ UNCHANGED getInfoCalls
          ELSE /\ req' = [req EXCEPT ![r] =
                            [rq EXCEPT !.pc = "awaitGetInfo", !.looked = TRUE,
                                       !.joined = InFlight(id),
                                       !.calls = @ + 1,
                                       !.call = getInfoCalls + 1]]
               /\ getInfoCalls' = getInfoCalls + 1
  /\ UNCHANGED << infoCache, timers, now, production, crashed >>

\* ytdl.getInfo resolves: getCachedInfo stores the info, schedules its expiry
\* and returns it to the handler.
GetInfoResolves(r, formats, title) ==
  /\ ~crashed
  /\ req[r].pc = "awaitGetInfo"
  /\ LET id == getURLVideoID(req[r].url)
         info == [id |-> id, formats |-> formats, title |-> title,
                  serial |-> req[r].call] IN
     /\ infoCache' = CacheSet(id, info)
     /\ timers' = timers \cup { [id |-> id, due |-> now + TTL, serial |-> req[r].call] }
     /\ req' = [req EXCEPT ![r] = [@ EXCEPT !.pc = "gotInfo", !.info = info]]
  /\ UNCHANGED << now, getInfoCalls, production, admitted, crashed >>

\* the variant of GetInfoRejects that calls the resolver again
GetInfoRejectsRetrying(r, err) ==
  /\ ~crashed
  /\ req[r].pc = "awaitGetInfo"
  /\ IF req[r].calls < 2
     THEN /\ req' = [req EXCEPT ![r] = [@ EXCEPT !.calls = @ + 1, !.err = err,
                                                 !.call = getInfoCalls + 1]]
          /\ getInfoCalls' = getInfoCalls + 1
     ELSE /\ req' = [req EXCEPT ![r] = Caught(req[r], err)]
          /\ UNCHANGED getInfoCalls
  /\ UNCHANGED << infoCache, timers, now, production, admitted, crashed >>

\* the variant of GetInfoRejects that stores the failed lookup in the cache
GetInfoRejectsCaching(r, err) ==
  /\ ~crashed
  /\ req[r].pc = "awaitGetInfo"
  /\ LET id == getURLVideoID(req[r].url) IN
     /\ infoCache' = CacheSet(id, [NoInfo EXCEPT !.id = id, !.serial = req[r].call])
     /\ timers' = timers \cup { [id |-> id, due |-> now + TTL, serial |-> req[r].call] }
  /\ req' = [req EXCEPT ![r] = Caught(req[r], err)]
  /\ UNCHANGED << now, getInfoCalls, production, admitted, crashed >>

\* ytdl.getInfo rejects: the rejection passes through getCachedInfo into the
\* handler's catch block.
GetInfoRejects(r, err) ==
  /\ ~crashed
  /\ req[r].pc = "awaitGetInfo"
  /\ req' = [req EXCEPT ![r] = Caught(req[r], err)]
  /\ UNCHANGED << infoCache, timers, now, getInfoCalls, production, admitted, crashed >>

\* POST /api/info after the await: project the details and answer
InfoRespond(r) ==
  /\ ~crashed
  /\ req[r].pc = "gotInfo"
  /\ req[r].op = "info"
  /\ req' = [req EXCEPT ![r] = JsonOk(@)]
  /\ UNCHANGED << infoCache, timers, now, getInfoCalls, production, admitted, crashed >>

\* the relay started without the two setHeader calls
StartRelayBare(rq, format, ext, mime) ==
  [rq EXCEPT !.pc = "streaming", !.format = format, !.upstream = "open", !.piped = TRUE]

\* setHeader('Content-Disposition', ...); setHeader('Content-Type', ...);
\* ytdl.downloadFromInfo(info, {format}).pipe(res)
StartRelay(rq, format, ext, mime) ==
  [rq EXCEPT !.pc = "streaming", !.format = format,
             !.headers = ("Content-Disposition" :>
                            (<< "attachment; filename=\"" >> \o SanitizedTitle(rq.info.title)
                               \o << "." \o ext \o "\"" >>))
                         @@ ("Content-Type" :> mime),
             !.upstream = "open", !.piped = TRUE]

NoSuchFormat(quality) ==
  [kind |-> "noformat", message |-> "No such format found: " \o quality,
   retryAfter |-> NoHint]

\* POST /api/download/mp3 after the await
Mp3Respond(r) ==
  /\ ~crashed
  /\ req[r].pc = "gotInfo"
  /\ req[r].op = "mp3"
  /\ LET c == chooseFormat(req[r].info.formats, "audioonly") IN
     req' = [req EXCEPT ![r] =
               IF ~c.found THEN Caught(@, NoSuchFormat("highestaudio"))
               ELSE StartRelay(@, c.format, "mp3", "audio/mpeg")]
  /\ UNCHANGED << infoCache, timers, now, getInfoCalls, production, admitted, crashed >>

\* POST /api/download/mp4 after the await
Mp4Respond(r) ==
  /\ ~crashed
  /\ req[r].pc = "gotInfo"
  /\ req[r].op = "mp4"
  /\ LET c == chooseFormat(req[r].info.formats, "progressivemp4") IN
     req' = [req EXCEPT ![r] =
               IF ~c.found THEN Caught(@, NoSuchFormat("highest"))
               ELSE IF c.format = NoFormat   \* `if (!format)`
               THEN JsonError(@, 400, "No compatible MP4 stream", FALSE)
               ELSE StartRelay(@, c.format, "mp4", "video/mp4")]
  /\ UNCHANGED << infoCache, timers, now, getInfoCalls, production, admitted, crashed >>

\* ------------------------------------------------------------------ the relay
\* `source.pipe(res)`: the source's next chunk is written to the response; the
\* first write sends the headers with the default status 200.
StreamData(r) ==
  /\ ~crashed
  /\ req[r].pc = "streaming"
  /\ req[r].upstream = "open"
  /\ req[r].piped
  /\ req[r].chunks < MaxChunks
  /\ req' = [req EXCEPT ![r] =
               [@ EXCEPT !.chunks = @ + 1, !.body = "bytes",
                         !.status = IF @ = 0 THEN 200 ELSE @, !.headersSent = TRUE,
                         !.responses = IF req[r].headersSent THEN @ ELSE @ + 1]]
  /\ UNCHANGED << infoCache, timers, now, getInfoCalls, production, admitted, crashed >>

\* the source ends: pipe calls res.end()
StreamEnd(r) ==
  /\ ~crashed
  /\ req[r].pc = "streaming"
  /\ req[r].upstream = "open"
  /\ req[r].piped
  /\ req' = [req EXCEPT ![r] =
               [@ EXCEPT !.pc = "done", !.upstream = "ended", !.piped = FALSE,
                         !.status = IF @ = 0 THEN 200 ELSE @,
                         !.headersSent = TRUE, !.ended = TRUE,
                         !.responses = IF req[r].headersSent THEN @ ELSE @ + 1]]
  /\ UNCHANGED << infoCache, timers, now, getInfoCalls, production, admitted, crashed >>

\* the variant of StreamError with a listener that answers 500 whatever has
\* been sent
StreamErrorAnswering(r) ==
  /\ ~crashed
  /\ req[r].pc = "streaming"
  /\ req[r].upstream = "open"
  /\ req' = [req EXCEPT ![r] =
               JsonError([@ EXCEPT !.upstream = "errored", !.piped = FALSE],
                         500, "Download failed", FALSE)]
  /\ UNCHANGED << infoCache, timers, now, getInfoCalls, production, admitted, crashed >>

\* the source emits 'error'.  The handlers attach no 'error' listener to the
\* stream and the process installs no uncaughtException handler, so the event
\* is thrown out of the event loop and the process dies; pipe does not end
\* the response on a source error.
StreamError(r) ==
  /\ ~crashed
  /\ req[r].pc = "streaming"
  /\ req[r].upstream = "open"
  /\ req' = [req EXCEPT ![r] = [@ EXCEPT !.upstream = "errored", !.piped = FALSE]]
  /\ crashed' = TRUE
  /\ UNCHANGED << infoCache, timers, now, getInfoCalls, production, admitted >>

\* the variant of ClientDisconnect that drops the video's cache entry
ClientDisconnectEvicting(r) ==
  /\ ~crashed
  /\ req[r].pc = "streaming"
  /\ req[r].client = "connected"
  /\ req' = [req EXCEPT ![r] =
               [@ EXCEPT !.client = "gone", !.piped = FALSE, !.chunksAtClose = req[r].chunks]]
  /\ infoCache' = CacheDelete(getURLVideoID(req[r].url))
  /\ UNCHANGED << timers, now, getInfoCalls, production, admitted, crashed >>

\* the client goes away while the relay runs: the response emits 'close' and
\* pipe's own listener unpipes the source.  The handlers register nothing on
\* 'close', so nobody destroys the source.
ClientDisconnect(r) ==
  /\ ~crashed
  /\ req[r].pc = "streaming"
  /\ req[r].client = "connected"
  /\ req' = [req EXCEPT ![r] =
               [@ EXCEPT !.client = "gone", !.piped = FALSE, !.chunksAtClose = req[r].chunks]]
  /\ UNCHANGED << infoCache, timers, now, getInfoCalls, production, admitted, crashed >>

\* ------------------------------------------------------------------ timers
\* () => infoCache.delete(id), run by the event loop at or after its due time
TimerFires(t) ==
  /\ ~crashed
  /\ t \in timers
  /\ now >= t.due
  /\ infoCache' = CacheDelete(t.id)
  /\ timers' = timers \ {t}
  /\ UNCHANGED << now, getInfoCalls, req, production, admitted, crashed >>

\* the request is over: its slot takes the next request
Release(r) ==
  /\ ~crashed
  /\ req[r].pc = "done"
  /\ req' = [req EXCEPT ![r] = IdleReq]
  /\ UNCHANGED << infoCache, timers, now, getInfoCalls, production, crashed, admitted >>

\* time passes: a quantum is longer than the 60 s window, which starts afresh
Tick ==
  /\ ~crashed
  /\ now < MaxTicks * Quantum
  /\ now' = now + Quantum
  /\ admitted' = 0
  /\ UNCHANGED << infoCache, timers, getInfoCalls, req, production, crashed >>

\* ------------------------------------------------------------------ system
Next ==
  \/ \E r \in Reqs, op \in Ops, url \in Urls : Receive(r, op, url)
  \/ \E r \in Reqs, formats \in FormatLists, title \in SampleTitles :
       GetInfoResolves(r, formats, title)
  \/ \E r \in Reqs, err \in Errors : GetInfoRejects(r, err)
  \/ \E r \in Reqs : InfoRespond(r)
  \/ \E r \in Reqs : Mp3Respond(r)
  \/ \E r \in Reqs : Mp4Respond(r)
  \/ \E r \in Reqs : StreamData(r)
  \/ \E r \in Reqs : StreamEnd(r)
  \/ \E r \in Reqs : StreamError(r)
  \/ \E r \in Reqs : ClientDisconnect(r)
  \/ \E t \in timers : TimerFires(t)
  \/ Tick

Spec == Init /\ [][Next]_vars

\* One download at a time, of a video of any title: the runs of the service
\* that exercise the filename.
NextName ==
  \/ \E op \in { "mp3", "mp4" } : Receive(1, op, "https://youtu.be/aaaaaaaaaaa")
  \/ \E title \in Titles : GetInfoResolves(1, FmtMuxed, title)
  \/ Mp3Respond(1)
  \/ Mp4Respond(1)

SpecName == Init /\ [][NextName]_vars

\* A burst: one client keeps asking for the info of one video, inside one
\* 60 s window, a slot being taken again as soon as its request is over.
NextBurst ==
  \/ \E r \in Reqs : Receive(r, "info", "https://youtu.be/aaaaaaaaaaa")
  \/ \E r \in Reqs, title \in SampleTitles : GetInfoResolves(r, FmtMuxed, title)
  \/ \E r \in Reqs : InfoRespond(r)
  \/ \E r \in Reqs : Release(r)

SpecBurst == Init /\ [][NextBurst]_vars

\* ------------------------------------------------------------------ properties
IdOf(r) == getURLVideoID(req[r].url)
Resolving(id) == { r \in Reqs : req[r].pc = "awaitGetInfo" /\ IdOf(r) = id }
Answered(r) == req[r].pc = "done"
\* the handler of r got its metadata and went on to format selection
Selected(r) == req[r].info # NoInfo /\ req[r].pc \in { "streaming", "done" }

\* C1: single-flight.  Requests for one video id that arrive while the id has
\* no cache entry and a resolve of it is in progress do not invoke the
\* resolver again: at no time are two ytdl.getInfo calls for one id in flight.
SingleFlight == \A id \in VideoIds : Cardinality(Resolving(id)) <= 1

\* C2: TTL expiry.  No lookup is answered from an entry that was stored more
\* than 30 minutes before the lookup, whether or not its timer has run.
NoStaleHit == \A r \in Reqs : req[r].hit => ~req[r].stale

\* C3: retry.  A transient resolver failure is surfaced to the client only
\* after the third consecutive failure, the resolver having been invoked again
\* after the first and the second.
TransientSurfacedAfterThird ==
  \A r \in Reqs :
    Answered(r) /\ req[r].err.kind = "transient" => req[r].calls = 3

\* C4: rate-limit short-circuit.  When the resolver fails with the upstream
\* too-many-requests indication, the resolver has been invoked exactly once
\* for that request and the error is surfaced at once: the request is answered
\* in the step that delivers the failure, with nothing in between.
RateLimitedNotRetried ==
  \A r \in Reqs :
    req[r].err.kind = "ratelimited" =>
      /\ req[r].calls = 1
      /\ Answered(r)
      /\ req[r].body = "error"
      /\ req[r].message = req[r].err.message

RateLimitedSurfaced ==
  \E r \in Reqs : Answered(r) /\ req[r].err.kind = "ratelimited" /\ req[r].calls = 1

\* C5: upstream rate-limit propagation.  A resolver failure classified as
\* rate limited is answered with 429 and a Retry-After header carrying the
\* upstream hint, or 60 when there is none.
RateLimitedAnswered429 ==
  \A r \in Reqs :
    Answered(r) /\ req[r].err.kind = "ratelimited" =>
      /\ req[r].status = 429
      /\ "Retry-After" \in DOMAIN req[r].headers
      /\ req[r].headers["Retry-After"] =
           (IF req[r].err.retryAfter = NoHint THEN "60" ELSE req[r].err.retryAfter)

\* C6: input validation gate.  On each of the three operations, a request
\* whose url is missing or fails validation is answered 400 "Invalid media
\* URL" by the step that receives it, and that step neither calls the resolver
\* nor reads or writes the cache nor schedules a timer.
ValidationGate ==
  [][ \A r \in Reqs :
        ( /\ req[r].pc = "idle"
          /\ req'[r].pc # "idle"
          /\ (req'[r].url = NoUrl \/ ~validateURL(req'[r].url)) )
        => /\ req'[r].pc = "done"
           /\ req'[r].status = 400
           /\ req'[r].body = "error"
           /\ req'[r].message = "Invalid media URL"
           /\ req'[r].calls = 0
           /\ ~req'[r].looked
           /\ UNCHANGED << infoCache, timers, getInfoCalls >> ]_vars

InvalidRejectedOnEveryOp ==
  /\ req[1].op = "mp3" /\ req[1].url = "not-a-url" /\ req[1].status = 400
  /\ req[2].op \in { "info", "mp4" } /\ req[2].url = NoUrl /\ req[2].status = 400
  /\ getInfoCalls = 0

\* C7: download-video with no matching format.  When the metadata holds no
\* progressive mp4 format with audio and video, the request is answered 400,
\* no byte stream is opened and no download header is set.
NoProgressiveMp4Answered400 ==
  \A r \in Reqs :
    ( /\ req[r].op = "mp4"
      /\ Selected(r)
      /\ Matching(req[r].info.formats, "progressivemp4") = {} )
    => /\ req[r].status = 400
       /\ req[r].upstream = "none"
       /\ DOMAIN req[r].headers = {}

\* C8: download-audio with no matching format.  When no audio-only format
\* matches, the request is answered with a 4xx status, never 500, and no byte
\* stream is opened.
NoAudioAnswered4xx ==
  \A r \in Reqs :
    ( /\ req[r].op = "mp3"
      /\ Selected(r)
      /\ Matching(req[r].info.formats, "audioonly") = {} )
    => /\ req[r].status \in 400 .. 499
       /\ req[r].upstream = "none"

\* C9: client disconnect during streaming.  Once the client is gone the
\* upstream byte source has been destroyed, and nothing has been written to
\* the response since.
DisconnectDestroysSource ==
  \A r \in Reqs :
    req[r].client = "gone" =>
      /\ req[r].upstream = "destroyed"
      /\ req[r].chunks = req[r].chunksAtClose

\* C10: mid-stream upstream error.  When the source has failed after the
\* headers were sent, the committed status stands, no JSON error body was
\* written, the response has been terminated and the server is still serving.
MidStreamErrorClosesResponse ==
  \A r \in Reqs :
    req[r].upstream = "errored" /\ req[r].headersSent =>
      /\ req[r].status = 200
      /\ req[r].body = "bytes"
      /\ req[r].ended
      /\ ~crashed

\* C12: same outcome for all waiters.  A request whose lookup found a
\* resolution of its id in flight ends with the outcome of that resolution:
\* the same metadata, or the same failure.
Settled(r) == req[r].pc \notin { "idle", "awaitGetInfo" } /\ req[r].looked
Outcome(r) == [info |-> req[r].info, err |-> req[r].err]
WaitersShareOutcome ==
  \A r \in Reqs, q \in Reqs :
    ( /\ req[q].call \in req[r].joined
      /\ Settled(r)
      /\ Settled(q) )
    => Outcome(r) = Outcome(q)

\* C13: cache hit.  A lookup of an id that has an entry in infoCache returns
\* the stored metadata in the step that receives the request, calls the
\* resolver not at all and schedules no timer.
CacheHitServed ==
  [][ \A r \in Reqs :
        ( /\ req[r].pc = "idle"
          /\ req'[r].pc # "idle"
          /\ validateURL(req'[r].url)
          /\ getURLVideoID(req'[r].url) \in DOMAIN infoCache )
        => /\ req'[r].info = infoCache[getURLVideoID(req'[r].url)].info
           /\ req'[r].pc = "gotInfo"
           /\ req'[r].calls = 0
           /\ UNCHANGED << infoCache, timers, getInfoCalls >> ]_vars

HitAnswered ==
  \E r \in Reqs :
    /\ req[r].hit
    /\ ~req[r].stale
    /\ req[r].calls = 0
    /\ Answered(r)
    /\ req[r].status = 200

\* C14: entry lifetime.  An entry stored at time T stays in infoCache until
\* T + 30 minutes: no step removes an entry that is younger than the TTL.
EntryKeptUntilTTL ==
  [][ \A id \in DOMAIN infoCache :
        now < infoCache[id].storedAt + TTL => id \in DOMAIN infoCache' ]_vars

\* C15: header ordering on downloads.  Whenever the upstream stream of a
\* download is open or a payload byte has been written, Content-Disposition
\* (attachment, with the operation's extension) and Content-Type (audio/mpeg,
\* video/mp4) are set on the response; and they are set only on a request
\* whose metadata resolution succeeded.
DownloadMime(op) == IF op = "mp3" THEN "audio/mpeg" ELSE "video/mp4"
HeadersBeforeStream ==
  \A r \in Reqs :
    /\ (req[r].upstream # "none" \/ req[r].chunks > 0) =>
         /\ req[r].op \in { "mp3", "mp4" }
         /\ DOMAIN req[r].headers = { "Content-Disposition", "Content-Type" }
         /\ req[r].headers["Content-Type"] = DownloadMime(req[r].op)
    /\ DOMAIN req[r].headers # {} =>
         /\ req[r].info # NoInfo
         /\ req[r].err = NoError

FirstByteAfterHeaders ==
  /\ req[1].op = "mp3" /\ req[1].chunks > 0
  /\ req[1].headers["Content-Type"] = "audio/mpeg"
  /\ req[2].op = "mp4" /\ req[2].upstream = "open" /\ req[2].chunks = 0
  /\ req[2].headers["Content-Type"] = "video/mp4"

\* C16: streaming never touches the cache.  Opening the byte stream, relaying
\* a chunk, the end of the source, a client disconnect and a mid-stream
\* upstream error each leave infoCache (and its timers) as they were.
RelayStep(r) ==
  \/ req[r].pc = "streaming" /\ req'[r] # req[r]
  \/ req[r].pc = "gotInfo" /\ req'[r].pc = "streaming"
Failed(r) == req[r].err.kind \in { "transient", "ratelimited" }
FailuresNotCached ==
  /\ \A id \in DOMAIN infoCache :
       LET e == infoCache[id].info IN
       /\ e.id = id
       /\ \E r \in Reqs :
            /\ IdOf(r) = id
            /\ req[r].call = e.serial
            /\ req[r].info = e
            /\ ~req[r].hit
            /\ ~Failed(r)
  /\ \A r \in Reqs :
       Failed(r) =>
         /\ \A id \in DOMAIN infoCache : infoCache[id].info.serial # req[r].call
         /\ \A t \in timers : t.serial # req[r].call

ResolvedAgainAfterFailure ==
  \E r \in Reqs, q \in Reqs :
    /\ Failed(r)
    /\ IdOf(q) = IdOf(r)
    /\ req[q].joined = {}
    /\ req[q].call > req[r].call
    /\ req[q].calls = 1

\* C19: at most one response per request.  No request commits a response
\* twice, and once a payload byte has been written the body is the byte
\* stream: no JSON body goes out after it.
OneResponse ==
  \A r \in Reqs :
    /\ req[r].responses <= 1
    /\ req[r].chunks > 0 => req[r].body = "bytes"
    /\ req[r].body \in { "json", "error" } => req[r].upstream = "none"

EveryPathAnsweredOnce ==
  /\ req[1].upstream = "errored" /\ req[1].chunks > 0 /\ req[1].responses = 1
  /\ Failed(2) /\ req[2].responses = 1 /\ req[2].status = 500

\* C17: filename sanitization.
\* the stem of the filename in the Content-Disposition header of r
Stem(r) ==
  LET v == req[r].headers["Content-Disposition"] IN SubSeq(v, 2, Len(v) - 1)
Downloading(r) == "Content-Disposition" \in DOMAIN req[r].headers

RECURSIVE IsSubseq(_, _)
\* s is t with some characters left out
IsSubseq(s, t) ==
  IF s = << >> THEN TRUE
  ELSE IF t = << >> THEN FALSE
  ELSE IF Head(s) = Head(t) THEN IsSubseq(Tail(s), Tail(t))
  ELSE IsSubseq(s, Tail(t))

Count(t, S) == Cardinality({ i \in 1 .. Len(t) : t[i] \in S })
Min(a, b) == IF a < b THEN a ELSE b

\* As claimed: the stem consists only of letters, digits, whitespace and
\* hyphen (the underscore is removed like every other character), keeps the
\* order of the title and has at most 80 characters.
StemWithoutUnderscore ==
  \A r \in Reqs :
    Downloading(r) =>
      /\ \A i \in 1 .. Len(Stem(r)) :
           Stem(r)[i] \in Letters \cup Digits \cup Whitespace \cup { "-" }
      /\ IsSubseq(Stem(r), req[r].info.title)
      /\ Len(Stem(r)) <= 80

\* C17, amended: the stem consists only of ASCII letters, digits, underscore,
\* whitespace and hyphen; it is the title with every other character left
\* out, in the title's order, cut to its first 80 characters.
StemAllowed == Letters \cup Digits \cup Whitespace \cup { "_", "-" }
StemOfWordSpaceHyphen ==
  \A r \in Reqs :
    Downloading(r) =>
      /\ \A i \in 1 .. Len(Stem(r)) : Stem(r)[i] \in StemAllowed
      /\ IsSubseq(Stem(r), req[r].info.title)
      /\ Len(Stem(r)) = Min(80, Count(req[r].info.title, StemAllowed))

UnderscoreKeptAndCut ==
  \E r \in Reqs :
    /\ Downloading(r)
    /\ Len(Stem(r)) = 80
    /\ Stem(r)[80] = "_"
    /\ Len(req[r].info.title) = 81
    /\ req[r].info.title[81] = "!"

\* C11: local rate limiter.  At most 20 requests of one client reach the
\* handlers (the resolver, the cache) within a 60 s window; the 21st is
\* turned away with 429 before them.
AtMostTwentyAdmitted == admitted <= 20

====
